---------------------------- MODULE Spec2Model ----------------------------
(***************************************************************************)
(* Attendance storage service of the SMPN 3 Pacet prayer-attendance app:   *)
(* the browser's local cache (localStorage), the calls of                  *)
(* services/storageService.ts (getStudents, getAttendance,                 *)
(* addAttendanceRecordToSheet,                                             *)
(* saveStudents, deleteAttendanceRecord, updateAttendanceStatus), the      *)
(* spreadsheet endpoint they talk to, the session kept by App and the      *)
(* lists the Reports component computes.                                   *)
(*                                                                         *)
(* An AttendanceRecord is [id, studentId, date, timestamp, status].  The   *)
(* fields studentName, className and operatorName are copies made when the *)
(* record is built and are never read by the storage service; they are     *)
(* left out.  A date is the number of the local calendar day.              *)
(***************************************************************************)
EXTENDS Integers, Sequences, FiniteSets, TLC

\* ------------------------------------------------------------------ bounds
NumStudents == 2          \* students that can be scanned
MaxIds == 2               \* record ids (crypto.randomUUID values) in use
MaxTime == 1              \* last instant of the local clock
TicksPerDay == 1          \* clock instants per local calendar day
MaxInFlight == 1          \* getAttendance/getStudents calls suspended at their fetch
MaxNet == 1               \* write requests in flight at once
MaxCloudLen == 2          \* longest array an uncontrolled endpoint returns
MaxReportLen == 3         \* most records handed to the Reports component
DaysPerMonth == 2         \* local calendar days per month
MaxViewLen == 2           \* most records in the arrays the period views are checked on
MaxMonth == 1             \* last month of the calendar those records are dated in
MaxRoster == 2       \* most students StudentList is let to hold

Students == 1..NumStudents
Statuses == {"PRESENT", "HAID"}
Ids == 1..MaxIds

Names == {"ABEL", "ADITYA"}

\* the roster built into the bundle, cut to its first entries
INITIAL_STUDENTS ==
  << [id |-> 1, name |-> "ABEL", className |-> "IX A"],
     [id |-> 2, name |-> "ADITYA", className |-> "IX A"] >>

SeqsUpTo(S, n) == UNION {[1..k -> S] : k \in 0..n}

\* the student a record id was issued for
Owner(id) == ((id - 1) % NumStudents) + 1

\* what an endpoint this client does not control may answer: any array of
\* records, ids repeated or not, and any array of students
CloudRecords ==
  {[id |-> i, studentId |-> Owner(i), date |-> t \div TicksPerDay,
    timestamp |-> t, status |-> st] : i \in Ids, t \in 0..MaxTime, st \in Statuses}
CloudArrays == SeqsUpTo(CloudRecords, MaxCloudLen)
CloudStudents ==
  {[id |-> i, name |-> n, className |-> "IX A"] : i \in Students, n \in Names}
CloudRosters == SeqsUpTo(CloudStudents, MaxCloudLen)

VARIABLES
  attStored,     \* localStorage has the ATTENDANCE key
  attCache,      \* the parsed array under the ATTENDANCE key (<<>> when absent)
  stuStored,     \* localStorage has the STUDENTS key
  stuCache,      \* the parsed array under the STUDENTS key (<<>> when absent)
  remote,        \* rows of the attendance sheet behind the endpoint
  net,           \* write requests sent and neither delivered nor lost
  syncs,         \* localRecords of the getAttendance calls awaiting their fetch
  stuSyncs,      \* localData of the getStudents calls awaiting their fetch
  now,           \* the client's clock (Date.now())
  nextId,        \* the next value crypto.randomUUID() yields
  called,        \* history: the <<student, day>> pairs add was called for
  deleted,       \* history: ids deleteAttendanceRecord removed from the cache
  pinned,        \* history: id -> the status of an update whose request was lost
  corrupt,       \* the localStorage keys whose content is not valid JSON
  syncTimer,     \* per call of syncs: the setTimeout of its fetchWithTimeout is pending
  stuTimer,      \* per call of stuSyncs: the same
  auth,          \* the parsed object under the AUTH key (<<>> when absent)
  app,           \* App's session state (useState): user, role, student, tab
  props,         \* the records and students App holds and hands to Reports
  report,        \* the props and the list of the view Reports rendered last
  joins,         \* the syncFullData calls awaiting their Promise.all
  isSyncing,     \* App's isSyncing flag
  isProcessing,  \* ScannerTab's isProcessing flag
  ev             \* the call that returned in the last step: result and request

vars == <<attStored, attCache, stuStored, stuCache, remote, net, syncs,
          stuSyncs, now, nextId, called, deleted, pinned, corrupt, syncTimer,
          stuTimer, auth, app, props, report, joins, isSyncing, isProcessing,
          ev>>

hist == <<called, deleted, pinned>>

\* what App and Reports hold, which no call of the storage service touches
session == <<auth, app, props, report, joins, isSyncing, isProcessing>>

\* ----------------------------------------------------------------- helpers
Range(s) == {s[i] : i \in 1..Len(s)}

IdsOf(recs) == {recs[i].id : i \in 1..Len(recs)}

\* the last record of recs that has the id
LastWithId(recs, id) ==
  recs[CHOOSE i \in 1..Len(recs) :
         /\ recs[i].id = id
         /\ \A j \in (i + 1)..Len(recs) : recs[j].id # id]

\* const today = `${now.getFullYear()}-${month}-${day}`
Today(t) == t \div TicksPerDay

\* records.splice(records.findIndex(r => r.id === id), 1): an index of -1
\* removes the last element
FilterOutSplice(recs, id) ==
  IF recs = <<>> THEN <<>>
  ELSE IF \E i \in 1..Len(recs) : recs[i].id = id
       THEN LET k == CHOOSE i \in 1..Len(recs) : recs[i].id = id IN
            SubSeq(recs, 1, k - 1) \o SubSeq(recs, k + 1, Len(recs))
       ELSE SubSeq(recs, 1, Len(recs) - 1)

\* records.filter(r => r.id !== id)
RECURSIVE FilterOut(_, _)
FilterOut(recs, id) ==
  IF recs = <<>> THEN <<>>
  ELSE IF Head(recs).id = id THEN FilterOut(Tail(recs), id)
       ELSE <<Head(recs)>> \o FilterOut(Tail(recs), id)

\* records.findIndex(r => r.id === id), 0 standing for -1
FindIndex(recs, id) ==
  IF \E i \in 1..Len(recs) : recs[i].id = id
  THEN CHOOSE i \in 1..Len(recs) :
         /\ recs[i].id = id
         /\ \A j \in 1..(i - 1) : recs[j].id # id
  ELSE 0

\* recordMap.set(r.id, r): a Map keeps the position of a key it already has
MapSet(m, r) ==
  IF \E i \in 1..Len(m) : m[i].id = r.id
  THEN [i \in 1..Len(m) |-> IF m[i].id = r.id THEN r ELSE m[i]]
  ELSE Append(m, r)

\* cloudRecords.forEach(r => recordMap.set(r.id, r))
RECURSIVE SetAll(_, _)
SetAll(m, recs) ==
  IF recs = <<>> THEN m ELSE SetAll(MapSet(m, Head(recs)), Tail(recs))

\* localRecords.forEach(r => { if (!recordMap.has(r.id)) recordMap.set(r.id, r) })
RECURSIVE SetMissing(_, _)
SetMissing(m, recs) ==
  IF recs = <<>> THEN m
  ELSE IF Head(recs).id \in IdsOf(m) THEN SetMissing(m, Tail(recs))
       ELSE SetMissing(Append(m, Head(recs)), Tail(recs))

\* one insertion of the stable sort with comparator b.timestamp - a.timestamp
RECURSIVE InsertDesc(_, _)
InsertDesc(sorted, r) ==
  IF sorted = <<>> THEN <<r>>
  ELSE IF Head(sorted).timestamp >= r.timestamp
       THEN <<Head(sorted)>> \o InsertDesc(Tail(sorted), r)
       ELSE <<r>> \o sorted

\* mergedRecords.sort((a, b) => b.timestamp - a.timestamp)
RECURSIVE SortDesc(_)
SortDesc(recs) ==
  IF recs = <<>> THEN <<>>
  ELSE InsertDesc(SortDesc(SubSeq(recs, 1, Len(recs) - 1)), recs[Len(recs)])

\* the merge with the local record winning over the cloud record of its id
MergeRecordsLocalFirst(cloud, local) ==
  SortDesc(SetMissing(SetAll(<<>>, local), cloud))

\* the merge without the sort
MergeRecordsUnsorted(cloud, local) == SetMissing(SetAll(<<>>, cloud), local)

\* the merge as a plain concatenation, without the Map keyed by id
MergeRecordsConcat(cloud, local) == SortDesc(cloud \o local)

\* the array getAttendance builds from the cloud array and localRecords
MergeRecords(cloud, local) == SortDesc(SetMissing(SetAll(<<>>, cloud), local))

\* cachedRecords.some(r => r.studentId === student.id && r.date === today)
HasToday(recs, s, today) ==
  \E i \in 1..Len(recs) : recs[i].studentId = s /\ recs[i].date = today

NewRecord(id, s, st, t) ==
  [id |-> id, studentId |-> s, date |-> Today(t), timestamp |-> t, status |-> st]

\* a POST body: action, the id and status of its payload, and the record of
\* an addAttendance payload
AddRequest(r) ==
  [action |-> "addAttendance", id |-> r.id, status |-> r.status, rec |-> <<r>>]
DeleteRequest(id) ==
  [action |-> "deleteAttendance", id |-> id, status |-> "", rec |-> <<>>]
UpdateRequest(id, st) ==
  [action |-> "updateAttendance", id |-> id, status |-> st, rec |-> <<>>]
\* the payload of saveStudents is the roster
SaveRequest(students) ==
  [action |-> "saveStudents", id |-> 0, status |-> "", rec |-> students]

\* what a call that returns leaves in ev: its arguments, its result (ok, rec,
\* ret), the request it sent, the cache or local snapshot it had read, for a
\* fetch the kind of response and the array received, and whether the call
\* ended by raising instead of returning
Event(op, s, id, st, ok, rec, sent, snap, ret) ==
  [op |-> op, student |-> s, id |-> id, status |-> st, ok |-> ok,
   rec |-> rec, sent |-> sent, kind |-> "", resp |-> <<>>, snap |-> snap,
   ret |-> ret, threw |-> FALSE]

FetchEvent(op, kind, cloud, wrote, snap, ret) ==
  [Event(op, 0, 0, "", wrote, <<>>, <<>>, snap, ret)
     EXCEPT !.kind = kind, !.resp = cloud]

NoEvent == Event("none", 0, 0, "", FALSE, <<>>, <<>>, <<>>, <<>>)

\* JSON.parse(stored) raising a SyntaxError outside any try block: the call
\* ends there, its promise rejected
Thrown(op, s, id, st) ==
  [Event(op, s, id, st, FALSE, <<>>, <<>>, <<>>, <<>>) EXCEPT !.threw = TRUE]

\* ---------------------------------------------------------------- the calls
\* the duplicate check leaving the date out
AddOutcomeAnyDay(cached, s, st, id, t) ==
  IF \E i \in 1..Len(cached) : cached[i].studentId = s
  THEN [success |-> FALSE, record |-> <<>>, write |-> FALSE,
        cache |-> cached, sent |-> <<>>]
  ELSE LET r == NewRecord(id, s, st, t) IN
       [success |-> TRUE, record |-> <<r>>, write |-> TRUE,
        cache |-> <<r>> \o cached, sent |-> <<AddRequest(r)>>]

\* the duplicate reported, but only after the record was stored and sent
AddOutcomeChecksLate(cached, s, st, id, t) ==
  LET r == NewRecord(id, s, st, t) IN
  IF HasToday(cached, s, Today(t))
  THEN [success |-> FALSE, record |-> <<>>, write |-> TRUE,
        cache |-> <<r>> \o cached, sent |-> <<AddRequest(r)>>]
  ELSE [success |-> TRUE, record |-> <<r>>, write |-> TRUE,
        cache |-> <<r>> \o cached, sent |-> <<AddRequest(r)>>]

\* addAttendanceRecordToSheet: what it returns, stores and sends
AddOutcome(cached, s, st, id, t) ==
  IF HasToday(cached, s, Today(t))
  THEN [success |-> FALSE, record |-> <<>>, write |-> FALSE,
        cache |-> cached, sent |-> <<>>]
  ELSE LET r == NewRecord(id, s, st, t) IN
       [success |-> TRUE, record |-> <<r>>, write |-> TRUE,
        cache |-> <<r>> \o cached, sent |-> <<AddRequest(r)>>]

\* deleteAttendanceRecord: what it returns, stores and sends
DeleteOutcome(stored, cached, id) ==
  IF ~stored
  THEN [ret |-> FALSE, write |-> FALSE, cache |-> cached, sent |-> <<>>]
  ELSE [ret |-> TRUE, write |-> TRUE, cache |-> FilterOut(cached, id),
        sent |-> <<DeleteRequest(id)>>]

\* the status change posted with the cache left as it was
UpdateOutcomeRemoteOnly(stored, cached, id, st) ==
  IF ~stored \/ FindIndex(cached, id) = 0
  THEN [ret |-> FALSE, write |-> FALSE, cache |-> cached, sent |-> <<>>]
  ELSE [ret |-> TRUE, write |-> FALSE, cache |-> cached,
        sent |-> <<UpdateRequest(id, st)>>]

\* updateAttendanceStatus: what it returns, stores and sends
UpdateOutcome(stored, cached, id, st) ==
  IF ~stored \/ FindIndex(cached, id) = 0
  THEN [ret |-> FALSE, write |-> FALSE, cache |-> cached, sent |-> <<>>]
  ELSE [ret |-> TRUE, write |-> TRUE,
        cache |-> [cached EXCEPT ![FindIndex(cached, id)].status = st],
        sent |-> <<UpdateRequest(id, st)>>]

AddAttendance(s, st) ==
  /\ IF "attendance" \in corrupt
     THEN /\ ev' = Thrown("add", s, 0, st)
          /\ UNCHANGED <<attStored, attCache, net, nextId>>
     ELSE LET o == AddOutcome(attCache, s, st, nextId, now) IN
       /\ o.success => nextId <= MaxIds
       /\ attCache' = o.cache
       /\ attStored' = (attStored \/ o.write)
       /\ Cardinality(net \cup Range(o.sent)) <= MaxNet
       /\ net' = net \cup Range(o.sent)
       /\ nextId' = IF o.success THEN nextId + 1 ELSE nextId
       /\ ev' = Event("add", s, 0, st, o.success, o.record, o.sent, attCache, <<>>)
  /\ UNCHANGED <<stuStored, stuCache, remote, syncs, stuSyncs, now, corrupt,
                 syncTimer, stuTimer, session>>

DeleteAttendance(id) ==
  /\ IF "attendance" \in corrupt
     THEN /\ ev' = Thrown("delete", 0, id, "")
          /\ UNCHANGED <<attStored, attCache, net>>
     ELSE LET o == DeleteOutcome(attStored, attCache, id) IN
       /\ attCache' = o.cache
       /\ attStored' = (attStored \/ o.write)
       /\ Cardinality(net \cup Range(o.sent)) <= MaxNet
       /\ net' = net \cup Range(o.sent)
       /\ ev' = Event("delete", 0, id, "", o.ret, <<>>, o.sent, attCache, <<>>)
  /\ UNCHANGED <<stuStored, stuCache, remote, syncs, stuSyncs, now, nextId,
                 corrupt, syncTimer, stuTimer, session>>

UpdateStatus(id, st) ==
  /\ IF "attendance" \in corrupt
     THEN /\ ev' = Thrown("update", 0, id, st)
          /\ UNCHANGED <<attStored, attCache, net>>
     ELSE LET o == UpdateOutcome(attStored, attCache, id, st) IN
       /\ attCache' = o.cache
       /\ attStored' = (attStored \/ o.write)
       /\ Cardinality(net \cup Range(o.sent)) <= MaxNet
       /\ net' = net \cup Range(o.sent)
       /\ ev' = Event("update", 0, id, st, o.ret, <<>>, o.sent, attCache, <<>>)
  /\ UNCHANGED <<stuStored, stuCache, remote, syncs, stuSyncs, now, nextId,
                 corrupt, syncTimer, stuTimer, session>>

\* saveStudents: the roster is stored, then posted without awaiting; true is
\* returned
SaveStudents(students) ==
  /\ stuCache' = students
  /\ stuStored' = TRUE
  /\ corrupt' = corrupt \ {"students"}
  /\ Cardinality(net \cup {SaveRequest(students)}) <= MaxNet
  /\ net' = net \cup {SaveRequest(students)}
  /\ ev' = Event("save", 0, 0, "", TRUE, students, <<SaveRequest(students)>>,
                 IF stuStored THEN stuCache ELSE <<>>, <<>>)
  /\ UNCHANGED <<attStored, attCache, remote, syncs, stuSyncs, now, nextId,
                 syncTimer, stuTimer, session>>

\* the responses a fetch can end with: an array, a body that is JSON but no
\* array, or an exception (network failure, abort at the timeout, bad JSON)
FailKinds == {"notArray", "error"}

RemoveAt(s, i) == SubSeq(s, 1, i - 1) \o SubSeq(s, i + 1, Len(s))

\* a response that is no array taken for an empty array
GetAttendanceOutcomeNoArrayCheck(local, kind, cloud) ==
  IF kind = "error"
  THEN [write |-> FALSE, ret |-> local]
  ELSE [write |-> TRUE, ret |-> cloud]

\* getAttendance after its await: what it returns and whether it stores it
GetAttendanceOutcome(local, kind, cloud) ==
  IF kind = "array"
  THEN [write |-> TRUE, ret |-> MergeRecords(cloud, local)]
  ELSE [write |-> FALSE, ret |-> local]

\* the students the cloud array lacks appended to it
GetStudentsOutcomeKeepsLocal(local, kind, cloud) ==
  IF kind = "array" /\ Len(cloud) > 0
  THEN [write |-> TRUE, ret |-> SetMissing(cloud, local)]
  ELSE [write |-> FALSE, ret |-> local]

\* getStudents after its await: what it returns and whether it stores it
GetStudentsOutcome(local, kind, cloud) ==
  IF kind = "array" /\ Len(cloud) > 0
  THEN [write |-> TRUE, ret |-> cloud]
  ELSE [write |-> FALSE, ret |-> local]

\* getAttendance posting the newest cached record again before its fetch
GetAttendanceStartResends ==
  /\ Len(syncs) + Len(stuSyncs) < MaxInFlight
  /\ "attendance" \notin corrupt
  /\ syncs' = Append(syncs, attCache)
  /\ syncTimer' = Append(syncTimer, TRUE)
  /\ net' = IF attCache = <<>> THEN net ELSE net \cup {AddRequest(attCache[1])}
  /\ ev' = NoEvent
  /\ UNCHANGED <<attStored, attCache, stuStored, stuCache, remote, stuSyncs,
                 now, nextId, corrupt, stuTimer, session>>

\* getAttendance up to its await: localRecords is read from the cache
GetAttendanceStart ==
  /\ Len(syncs) + Len(stuSyncs) < MaxInFlight
  /\ IF "attendance" \in corrupt
     THEN /\ ev' = Thrown("getAttendance", 0, 0, "")
          /\ UNCHANGED <<syncs, syncTimer>>
     ELSE /\ syncs' = Append(syncs, attCache)
          /\ syncTimer' = Append(syncTimer, TRUE)
          /\ ev' = NoEvent
  /\ UNCHANGED <<attStored, attCache, stuStored, stuCache, remote, net,
                 stuSyncs, now, nextId, corrupt, stuTimer, session>>

\* getAttendance from its await to its return
GetAttendanceEnd(i, kind, cloud) ==
  /\ i \in 1..Len(syncs)
  /\ LET o == GetAttendanceOutcome(syncs[i], kind, cloud) IN
       /\ attCache' = IF o.write THEN o.ret ELSE attCache
       /\ attStored' = (attStored \/ o.write)
       /\ corrupt' = IF o.write THEN corrupt \ {"attendance"} ELSE corrupt
       /\ ev' = FetchEvent("getAttendance", kind, cloud, o.write, syncs[i], o.ret)
  /\ syncs' = RemoveAt(syncs, i)
  /\ syncTimer' = RemoveAt(syncTimer, i)
  /\ UNCHANGED <<stuStored, stuCache, remote, net, stuSyncs, now, nextId,
                 stuTimer, session>>

\* getStudents up to its await: localData is the cache or INITIAL_STUDENTS
GetStudentsStart ==
  /\ Len(syncs) + Len(stuSyncs) < MaxInFlight
  /\ IF "students" \in corrupt
     THEN /\ ev' = Thrown("getStudents", 0, 0, "")
          /\ UNCHANGED <<stuSyncs, stuTimer>>
     ELSE /\ stuSyncs' =
               Append(stuSyncs, IF stuStored THEN stuCache ELSE INITIAL_STUDENTS)
          /\ stuTimer' = Append(stuTimer, TRUE)
          /\ ev' = NoEvent
  /\ UNCHANGED <<attStored, attCache, stuStored, stuCache, remote, net,
                 syncs, now, nextId, corrupt, syncTimer, session>>

\* getStudents from its await to its return
GetStudentsEnd(i, kind, cloud) ==
  /\ i \in 1..Len(stuSyncs)
  /\ LET o == GetStudentsOutcome(stuSyncs[i], kind, cloud) IN
       /\ stuCache' = IF o.write THEN o.ret ELSE stuCache
       /\ stuStored' = (stuStored \/ o.write)
       /\ corrupt' = IF o.write THEN corrupt \ {"students"} ELSE corrupt
       /\ ev' = FetchEvent("getStudents", kind, cloud, o.write, stuSyncs[i], o.ret)
  /\ stuSyncs' = RemoveAt(stuSyncs, i)
  /\ stuTimer' = RemoveAt(stuTimer, i)
  /\ UNCHANGED <<attStored, attCache, remote, net, syncs, now, nextId,
                 syncTimer, session>>

\* fetchWithTimeout, its fetch resolved with the response: clearTimeout(id)
\* runs and the call goes on to await response.json()
ResponseStarts(i) ==
  /\ i \in 1..Len(syncs)
  /\ syncTimer[i]
  /\ syncTimer' = [syncTimer EXCEPT ![i] = FALSE]
  /\ ev' = NoEvent
  /\ UNCHANGED <<attStored, attCache, stuStored, stuCache, remote, net, syncs,
                 stuSyncs, now, nextId, corrupt, stuTimer, session>>

\* fetchWithTimeout, its timer run out before the fetch resolved:
\* controller.abort() makes the fetch reject, which getAttendance catches
TimerFires(i) ==
  /\ i \in 1..Len(syncs)
  /\ syncTimer[i]
  /\ GetAttendanceEnd(i, "error", <<>>)

\* response.json() of getAttendance settles: the timer was cleared before
BodyArrives(i, kind, cloud) ==
  /\ i \in 1..Len(syncs)
  /\ ~syncTimer[i]
  /\ GetAttendanceEnd(i, kind, cloud)

\* the same three steps of the fetchWithTimeout of getStudents
RosterResponseStarts(i) ==
  /\ i \in 1..Len(stuSyncs)
  /\ stuTimer[i]
  /\ stuTimer' = [stuTimer EXCEPT ![i] = FALSE]
  /\ ev' = NoEvent
  /\ UNCHANGED <<attStored, attCache, stuStored, stuCache, remote, net, syncs,
                 stuSyncs, now, nextId, corrupt, syncTimer, session>>

RosterTimerFires(i) ==
  /\ i \in 1..Len(stuSyncs)
  /\ stuTimer[i]
  /\ GetStudentsEnd(i, "error", <<>>)

RosterBodyArrives(i, kind, cloud) ==
  /\ i \in 1..Len(stuSyncs)
  /\ ~stuTimer[i]
  /\ GetStudentsEnd(i, kind, cloud)

\* ------------------------------------------------------------ the endpoint
\* the sheet after the endpoint has carried out a write request
Applied(rows, req) ==
  IF req.action = "addAttendance" THEN rows \o req.rec
  ELSE IF req.action = "saveStudents" THEN rows
  ELSE IF req.action = "deleteAttendance" THEN FilterOut(rows, req.id)
  ELSE [i \in 1..Len(rows) |->
          IF rows[i].id = req.id THEN [rows[i] EXCEPT !.status = req.status]
          ELSE rows[i]]

Deliver(req) ==
  /\ req \in net
  /\ remote' = Applied(remote, req)
  /\ net' = net \ {req}
  /\ ev' = NoEvent
  /\ UNCHANGED <<attStored, attCache, stuStored, stuCache, syncs, stuSyncs,
                 now, nextId, corrupt, syncTimer, stuTimer, session>>

\* fetch(...) without await and without a handler that re-sends
Lose(req) ==
  /\ req \in net
  /\ net' = net \ {req}
  /\ ev' = NoEvent
  /\ UNCHANGED <<attStored, attCache, stuStored, stuCache, remote, syncs,
                 stuSyncs, now, nextId, corrupt, syncTimer, stuTimer, session>>

Tick ==
  /\ now < MaxTime
  /\ now' = now + 1
  /\ ev' = NoEvent
  /\ UNCHANGED <<attStored, attCache, stuStored, stuCache, remote, net, syncs,
                 stuSyncs, nextId, corrupt, syncTimer, stuTimer, session>>

\* ------------------------------------------------------------- the session
Roles == {"ADMIN", "TEACHER", "PARENT"}
Tabs == {"dashboard", "scan", "students", "reports"}
Periods == {"DAILY", "WEEKLY", "MONTHLY", "SEMESTER"}

\* the defaults of App's useState calls
InitialApp ==
  [isAuthenticated |-> FALSE, currentUser |-> "", userRole |-> "TEACHER",
   parentStudentData |-> <<>>, activeTab |-> "dashboard"]

\* useState<Student[]>([]) and useState<AttendanceRecord[]>([])
NoProps == [records |-> <<>>, students |-> <<>>]

NoReport ==
  [period |-> "", records |-> <<>>, students |-> <<>>, viewOnlyStudent |-> <<>>,
   today |-> 0, startDate |-> 0, endDate |-> 0, historyMonth |-> 0,
   rows |-> <<>>]

\* `Wali ${student.name.split(' ')[0]}`
WaliOf(student) == "Wali " \o student.name

\* what the Login form passes to onLogin: the administrator, a teacher of
\* the staff list, or the guardian of a student of the roster the form was
\* given, here the built-in one
Logins ==
  {[username |-> "ADMINISTRATOR", role |-> "ADMIN", studentData |-> <<>>],
   [username |-> "Dra. Sri Hayati", role |-> "TEACHER", studentData |-> <<>>]}
  \cup {[username |-> WaliOf(s), role |-> "PARENT", studentData |-> <<s>>] :
          s \in Range(INITIAL_STUDENTS)}

\* JSON.stringify({ username, role, studentData }): a property whose value
\* is undefined is left out of the text
StringifyAuth(username, role, studentData) ==
  IF studentData = <<>>
  THEN [username |-> username, role |-> role]
  ELSE [username |-> username, role |-> role, studentData |-> studentData[1]]

\* parsedAuth.role === 'PARENT' && parsedAuth.studentData
HasStudentData(parsedAuth) ==
  parsedAuth.role = "PARENT" /\ "studentData" \in DOMAIN parsedAuth

\* the session restored with the role left at its default
RestoredAppAsTeacher(parsedAuth) ==
  [isAuthenticated |-> TRUE,
   currentUser |-> parsedAuth.username,
   userRole |-> "TEACHER",
   parentStudentData |-> <<>>,
   activeTab |-> "dashboard"]

\* the state the useEffect of App sets from the parsed session
RestoredApp(parsedAuth) ==
  [isAuthenticated |-> TRUE,
   currentUser |-> parsedAuth.username,
   userRole |-> parsedAuth.role,
   parentStudentData |->
     IF HasStudentData(parsedAuth) THEN <<parsedAuth.studentData>> ELSE <<>>,
   activeTab |-> IF HasStudentData(parsedAuth) THEN "reports" ELSE "dashboard"]

AppEvent(op) == Event(op, 0, 0, "", TRUE, <<>>, <<>>, <<>>, <<>>)

\* handleLogin, reached from the Login form App shows while logged out
HandleLogin(username, role, studentData) ==
  /\ ~app.isAuthenticated
  /\ auth' = <<StringifyAuth(username, role, studentData)>>
  /\ corrupt' = corrupt \ {"auth"}
  /\ app' = [isAuthenticated |-> TRUE, currentUser |-> username,
             userRole |-> role, parentStudentData |-> studentData,
             activeTab |-> IF role = "PARENT" THEN "reports" ELSE "dashboard"]
  /\ report' = NoReport
  /\ isProcessing' = FALSE
  /\ ev' = AppEvent("login")
  /\ UNCHANGED <<attStored, attCache, stuStored, stuCache, remote, net, syncs,
                 stuSyncs, now, nextId, syncTimer, stuTimer, props, joins,
                 isSyncing>>

\* handleLogout, reached from the header button shown while logged in
HandleLogout ==
  /\ app.isAuthenticated
  /\ auth' = <<>>
  /\ corrupt' = corrupt \ {"auth"}
  /\ app' = InitialApp
  /\ report' = NoReport
  /\ isProcessing' = FALSE
  /\ ev' = AppEvent("logout")
  /\ UNCHANGED <<attStored, attCache, stuStored, stuCache, remote, net, syncs,
                 stuSyncs, now, nextId, syncTimer, stuTimer, props, joins,
                 isSyncing>>

\* a getStudents or getAttendance call made by syncFullData: suspended at
\* its fetch with the local data it has read, or returned with its array
PendingCall(local) == [done |-> FALSE, local |-> local, value |-> <<>>]
ReturnedCall(value) == [done |-> TRUE, local |-> <<>>, value |-> value]

\* what getStudents reads as its localData
LocalStudents(stored, cached) == IF stored THEN cached ELSE INITIAL_STUDENTS

\* syncFullData up to its await, called while pending holds the calls
\* awaiting their Promise.all and the caches hold students and records:
\* getStudents() and getAttendance() each run to their fetch.  When one of
\* them throws at its JSON.parse the Promise.all rejects, the catch logs,
\* the finally clears isSyncing and the other call goes on by itself
\* (running and timer give where such calls and the timers of their
\* fetchWithTimeout are kept).
SyncFullDataOutcome(pending, running, timer, students, records) ==
     IF {"students", "attendance"} \cap corrupt = {}
     THEN [joins |-> Append(pending, [students |-> PendingCall(students),
                                      records |-> PendingCall(records)]),
           isSyncing |-> TRUE, threw |-> FALSE,
           syncs |-> running.syncs, stuSyncs |-> running.stuSyncs,
           syncTimer |-> timer.syncTimer, stuTimer |-> timer.stuTimer]
     ELSE [joins |-> pending, isSyncing |-> FALSE, threw |-> TRUE,
           syncs |-> IF "attendance" \in corrupt THEN running.syncs
                     ELSE Append(running.syncs, records),
           syncTimer |-> IF "attendance" \in corrupt THEN timer.syncTimer
                         ELSE Append(timer.syncTimer, TRUE),
           stuSyncs |-> IF "students" \in corrupt THEN running.stuSyncs
                        ELSE Append(running.stuSyncs, students),
           stuTimer |-> IF "students" \in corrupt THEN timer.stuTimer
                        ELSE Append(timer.stuTimer, TRUE)]

\* the state a call of syncFullData leaves
SyncFullDataCalled(o) ==
  /\ joins' = o.joins
  /\ isSyncing' = o.isSyncing
  /\ syncs' = o.syncs
  /\ stuSyncs' = o.stuSyncs
  /\ syncTimer' = o.syncTimer
  /\ stuTimer' = o.stuTimer

\* the calls and timers there are
Running == [syncs |-> syncs, stuSyncs |-> stuSyncs]
Timers == [syncTimer |-> syncTimer, stuTimer |-> stuTimer]
\* those of a page just loaded
NoneRunning == [syncs |-> <<>>, stuSyncs |-> <<>>]
NoTimers == [syncTimer |-> <<>>, stuTimer |-> <<>>]

\* the page is loaded: App mounts with its defaults, its useEffect restores
\* the stored session (removing one that does not parse) and calls
\* syncFullData; the calls the page before had suspended are gone with it
AppStart ==
  /\ IF auth = <<>> /\ "auth" \notin corrupt
     THEN /\ app' = InitialApp
          /\ UNCHANGED <<auth, corrupt>>
     ELSE IF "auth" \in corrupt
          THEN /\ app' = InitialApp
               /\ auth' = <<>>
               /\ corrupt' = corrupt \ {"auth"}
          ELSE /\ app' = RestoredApp(auth[1])
               /\ UNCHANGED <<auth, corrupt>>
  /\ SyncFullDataCalled(
       SyncFullDataOutcome(<<>>, NoneRunning, NoTimers,
                           LocalStudents(stuStored, stuCache), attCache))
  /\ props' = NoProps
  /\ report' = NoReport
  /\ isProcessing' = FALSE
  /\ ev' = AppEvent("start")
  /\ UNCHANGED <<attStored, attCache, stuStored, stuCache, remote, net, now,
                 nextId>>

\* a button of the bottom bar, which a guardian is not shown and whose
\* students button only the administrator is shown; ScannerTab is mounted
\* anew, with isProcessing false, when the tab shown changes
SetActiveTab(tab) ==
  /\ app.isAuthenticated
  /\ app.userRole # "PARENT"
  /\ tab = "students" => app.userRole = "ADMIN"
  /\ app' = [app EXCEPT !.activeTab = tab]
  /\ report' = NoReport
  /\ isProcessing' = IF tab = app.activeTab THEN isProcessing ELSE FALSE
  /\ ev' = AppEvent("tab")
  /\ UNCHANGED <<attStored, attCache, stuStored, stuCache, remote, net, syncs,
                 stuSyncs, now, nextId, corrupt, syncTimer, stuTimer, auth,
                 props, joins, isSyncing>>

\* ------------------------------------------------------------- the reports
\* the strings the reports compare, in the order localeCompare puts them
Collation == <<"ABEL", "ADITYA", "IX A", "IX B">>

\* a.localeCompare(b): negative, zero or positive
LocaleCompare(a, b) ==
  (CHOOSE i \in 1..Len(Collation) : Collation[i] = a)
    - (CHOOSE i \in 1..Len(Collation) : Collation[i] = b)

\* Array.prototype.sort, which is stable: an element goes after those the
\* comparator puts before it and after its equals that stood before it
SortBy(s, Before(_, _)) ==
  LET n == Len(s)
      Pos(i) ==
        1 + Cardinality({j \in 1..n :
                           \/ Before(s[j], s[i])
                           \/ (~Before(s[i], s[j]) /\ j < i)})
  IN [k \in 1..n |-> s[CHOOSE i \in 1..n : Pos(i) = k]]

\* Array.prototype.find: <<>> stands for undefined
Find(recs, Test(_)) ==
  LET found == SelectSeq(recs, Test) IN
  IF found = <<>> THEN <<>> ELSE <<found[1]>>

Count(recs, Test(_)) == Len(SelectSeq(recs, Test))

\* the elements of a finite set of numbers in ascending order
Ascending(S) ==
  [k \in 1..Cardinality(S) |->
     CHOOSE x \in S : Cardinality({y \in S : y < x}) = k - 1]

\* r.date.startsWith(historyMonth)
MonthOf(date) == date \div DaysPerMonth

\* format(record.timestamp, 'HH:mm')
TimeOfDay(t) == t % TicksPerDay

\* a.className.localeCompare(b.className) || a.name.localeCompare(b.name)
ByClassThenName(a, b) ==
  \/ LocaleCompare(a.className, b.className) < 0
  \/ /\ LocaleCompare(a.className, b.className) = 0
     /\ LocaleCompare(a.name, b.name) < 0

\* b.total - a.total || a.name.localeCompare(b.name)
ByTotalThenName(a, b) ==
  \/ a.total > b.total
  \/ (a.total = b.total /\ LocaleCompare(a.name, b.name) < 0)

\* viewOnlyStudent ? [viewOnlyStudent] : students, then the class filter
TargetStudents(students, viewOnlyStudent, class) ==
  IF viewOnlyStudent # <<>> THEN viewOnlyStudent
  ELSE IF class = "ALL" THEN students
  ELSE SelectSeq(students, LAMBDA st : st.className = class)

\* a record whose optional status field is missing has status "", which
\* like undefined is falsy: record?.status || 'ABSENT'
DailyRow(student, todayRecords) ==
  LET record == Find(todayRecords, LAMBDA r : r.studentId = student.id)
      statusRaw == IF record = <<>> \/ record[1].status = "" THEN "ABSENT"
                   ELSE record[1].status
  IN
  [id |-> student.id, name |-> student.name, className |-> student.className,
   recordId |-> IF record = <<>> THEN 0 ELSE record[1].id,
   isPresent |-> record # <<>>,
   statusRaw |-> statusRaw,
   time |-> IF record = <<>> THEN -1 ELSE TimeOfDay(record[1].timestamp),
   statusLabel |-> IF record = <<>> THEN "Alfa"
                   ELSE IF statusRaw = "HAID" THEN "Haid" ELSE "Hadir"]

\* the daily list looking a student up in the records of every day
dailyMasterListAnyDay(records, students, viewOnlyStudent, today) ==
  LET target == TargetStudents(students, viewOnlyStudent, "ALL") IN
  SortBy([i \in 1..Len(target) |-> DailyRow(target[i], records)],
         ByClassThenName)

dailyMasterList(records, students, viewOnlyStudent, today) ==
  LET todayRecords == SelectSeq(records, LAMBDA r : r.date = today)
      target == TargetStudents(students, viewOnlyStudent, "ALL")
  IN SortBy([i \in 1..Len(target) |-> DailyRow(target[i], todayRecords)],
            ByClassThenName)

\* eachDayOfInterval({ start, end })
DaysOfInterval(start, end) == [k \in 1..(end - start + 1) |-> start + k - 1]

WeeklyRow(student, records, days) ==
  LET Cell(d) ==
        LET record ==
              Find(records, LAMBDA r : r.studentId = student.id /\ r.date = d)
        IN [date |-> d,
            isPresent |-> record # <<>>,
            isHaid |-> record # <<>> /\ record[1].status = "HAID",
            recordId |-> IF record = <<>> THEN 0 ELSE record[1].id]
      cells == [k \in 1..Len(days) |-> Cell(days[k])]
  IN [id |-> student.id, name |-> student.name, className |-> student.className,
      attendanceMap |-> cells,
      presentCount |->
        Cardinality({k \in 1..Len(days) : cells[k].isPresent /\ ~cells[k].isHaid}),
      haidCount |-> Cardinality({k \in 1..Len(days) : cells[k].isHaid})]

\* the matrix of weeklyMatrixData
weeklyMatrixData(records, students, viewOnlyStudent, start, end, selectedClass) ==
  LET target == TargetStudents(students, viewOnlyStudent, selectedClass)
      days == DaysOfInterval(start, end)
  IN SortBy([i \in 1..Len(target) |-> WeeklyRow(target[i], records, days)],
            ByClassThenName)

\* the history row counting the student's records of every month
MonthlyRowAnyMonth(student, records, month) ==
  LET monthRecords == SelectSeq(records, LAMBDA r : r.studentId = student.id)
      presentCount == Count(monthRecords, LAMBDA r : r.status = "PRESENT")
      haidCount == Count(monthRecords, LAMBDA r : r.status = "HAID")
  IN [id |-> student.id, name |-> student.name, className |-> student.className,
      presentCount |-> presentCount, haidCount |-> haidCount,
      total |-> presentCount + haidCount]

MonthlyRow(student, records, month) ==
  LET monthRecords ==
        SelectSeq(records,
                  LAMBDA r : r.studentId = student.id /\ MonthOf(r.date) = month)
      presentCount == Count(monthRecords, LAMBDA r : r.status = "PRESENT")
      haidCount == Count(monthRecords, LAMBDA r : r.status = "HAID")
  IN [id |-> student.id, name |-> student.name, className |-> student.className,
      presentCount |-> presentCount, haidCount |-> haidCount,
      total |-> presentCount + haidCount]

monthlyStats(records, students, viewOnlyStudent, historyMonth, historyFilterClass) ==
  LET target == TargetStudents(students, viewOnlyStudent, historyFilterClass) IN
  SortBy([i \in 1..Len(target) |-> MonthlyRow(target[i], records, historyMonth)],
         ByTotalThenName)

\* counts[s.id] after both forEach loops: the last roster entry with the id
\* and the tallies of the records with that studentId
SemesterEntry(id, records, students) ==
  LET student == LastWithId(students, id)
      present == Count(records, LAMBDA r : r.studentId = id /\ r.status # "HAID")
      haid == Count(records, LAMBDA r : r.studentId = id /\ r.status = "HAID")
  IN [id |-> id, name |-> student.name, className |-> student.className,
      present |-> present, haid |-> haid, total |-> present + haid]

\* Object.values(counts): the keys are numeric strings (NIS numbers), which
\* an object lists in ascending numeric order
SemesterCounts(records, students) ==
  LET keys == Ascending(IdsOf(students)) IN
  [k \in 1..Len(keys) |-> SemesterEntry(keys[k], records, students)]

\* the leaderboard with the students without records left in
semesterDataKeepsZero(records, students) ==
  SortBy(SemesterCounts(records, students), ByTotalThenName)

semesterData(records, students) ==
  SortBy(SelectSeq(SemesterCounts(records, students), LAMBDA e : e.total > 0),
         ByTotalThenName)

\* the list of the selected tab of Reports
ReportRows(period, records, students, viewOnlyStudent, today, start, end, month) ==
  CASE period = "DAILY" ->
         dailyMasterList(records, students, viewOnlyStudent, today)
    [] period = "WEEKLY" ->
         weeklyMatrixData(records, students, viewOnlyStudent, start, end, "ALL")
    [] period = "MONTHLY" ->
         monthlyStats(records, students, viewOnlyStudent, month, "ALL")
    [] period = "SEMESTER" -> semesterData(records, students)

\* what App may hold: arrays getAttendance and getStudents returned
ReportRecords == SeqsUpTo(CloudRecords, MaxReportLen)
ReportRosters == CloudRosters
Days == 0..Today(MaxTime)
Months == 0..MonthOf(Today(MaxTime))

\* the arrays the period views are checked on: records of any student, day
\* and status, the status field there or missing (""), in the order
\* getAttendance leaves them in (newest first) and with distinct ids; an id
\* is an opaque UUID, so the ids are numbered in array order
ViewDates == 0..((MaxMonth + 1) * DaysPerMonth - 1)
ViewMonths == 0..MaxMonth
ViewRecords ==
  {[id |-> i, studentId |-> s, date |-> Today(t), timestamp |-> t, status |-> st] :
     i \in 1..MaxViewLen, s \in Students,
     t \in 0..((MaxMonth + 1) * DaysPerMonth * TicksPerDay - 1),
     st \in Statuses \cup {""}}
ViewArrays ==
  {recs \in SeqsUpTo(ViewRecords, MaxViewLen) :
     /\ \A i \in 1..Len(recs) : recs[i].id = i
     /\ \A i \in 1..(Len(recs) - 1) : recs[i].timestamp >= recs[i + 1].timestamp}
\* the rosters the daily view is checked on: students of two classes, with
\* distinct ids
Classes == {"IX A", "IX B"}
DailyRosters ==
  {r \in SeqsUpTo({[id |-> i, name |-> n, className |-> c] :
                     i \in Students, n \in Names, c \in Classes}, MaxCloudLen) :
     \A i, j \in 1..Len(r) : r[i].id = r[j].id => i = j}
\* the rosters those views are checked on: students with distinct ids
ViewRosters ==
  {r \in CloudRosters : \A i, j \in 1..Len(r) : r[i].id = r[j].id => i = j}

\* Reports renders the tab of a period from the props App hands it; the
\* class filters are at 'ALL', their useState default
RenderReports(period, start, end, month) ==
  /\ app.isAuthenticated
  /\ app.activeTab = "reports"
  /\ start <= end
  /\ report' =
       [period |-> period, records |-> props.records,
        students |-> props.students,
        viewOnlyStudent |-> app.parentStudentData, today |-> Today(now),
        startDate |-> start, endDate |-> end, historyMonth |-> month,
        rows |-> ReportRows(period, props.records, props.students,
                            app.parentStudentData, Today(now), start, end,
                            month)]
  /\ ev' = AppEvent("render")
  /\ UNCHANGED <<attStored, attCache, stuStored, stuCache, remote, net, syncs,
                 stuSyncs, now, nextId, corrupt, syncTimer, stuTimer, auth, app,
                 props, joins, isSyncing, isProcessing>>

\* --------------------------------------------------- App and its handlers
\* the calls in flight, those of syncFullData included
InFlight == Len(joins) + Len(syncs) + Len(stuSyncs)

\* syncFullData after its await, when the call that returned was the last
\* of the two: setStudents, setRecords and, in the finally, setIsSyncing
JoinSettled(j, studentData, attendanceData) ==
  /\ props' = [records |-> attendanceData, students |-> studentData]
  /\ joins' = RemoveAt(joins, j)
  /\ isSyncing' = FALSE

\* the getStudents call of the j-th syncFullData goes from its await to its
\* return
StudentsSettle(j, kind, cloud) ==
  /\ j \in 1..Len(joins)
  /\ ~joins[j].students.done
  /\ LET o == GetStudentsOutcome(joins[j].students.local, kind, cloud) IN
       /\ stuCache' = IF o.write THEN o.ret ELSE stuCache
       /\ stuStored' = (stuStored \/ o.write)
       /\ corrupt' = IF o.write THEN corrupt \ {"students"} ELSE corrupt
       /\ ev' = FetchEvent("getStudents", kind, cloud, o.write,
                           joins[j].students.local, o.ret)
       /\ IF joins[j].records.done
          THEN JoinSettled(j, o.ret, joins[j].records.value)
          ELSE /\ joins' = [joins EXCEPT ![j].students = ReturnedCall(o.ret)]
               /\ UNCHANGED <<props, isSyncing>>
  /\ UNCHANGED <<attStored, attCache, remote, net, syncs, stuSyncs, now,
                 nextId, syncTimer, stuTimer, auth, app, report, isProcessing>>

\* the getAttendance call of the j-th syncFullData goes from its await to
\* its return
AttendanceSettle(j, kind, cloud) ==
  /\ j \in 1..Len(joins)
  /\ ~joins[j].records.done
  /\ LET o == GetAttendanceOutcome(joins[j].records.local, kind, cloud) IN
       /\ attCache' = IF o.write THEN o.ret ELSE attCache
       /\ attStored' = (attStored \/ o.write)
       /\ corrupt' = IF o.write THEN corrupt \ {"attendance"} ELSE corrupt
       /\ ev' = FetchEvent("getAttendance", kind, cloud, o.write,
                           joins[j].records.local, o.ret)
       /\ IF joins[j].students.done
          THEN JoinSettled(j, joins[j].students.value, o.ret)
          ELSE /\ joins' = [joins EXCEPT ![j].records = ReturnedCall(o.ret)]
               /\ UNCHANGED <<props, isSyncing>>
  /\ UNCHANGED <<stuStored, stuCache, remote, net, syncs, stuSyncs, now,
                 nextId, syncTimer, stuTimer, auth, app, report, isProcessing>>

\* the REFRESH button of the header, disabled while isSyncing
SyncFullData ==
  /\ app.isAuthenticated
  /\ ~isSyncing
  /\ InFlight < MaxInFlight
  /\ LET o == SyncFullDataOutcome(joins, Running, Timers,
                                  LocalStudents(stuStored, stuCache), attCache)
     IN /\ SyncFullDataCalled(o)
        /\ ev' = [AppEvent("refresh") EXCEPT !.threw = o.threw]
  /\ UNCHANGED <<attStored, attCache, stuStored, stuCache, remote, net, now,
                 nextId, corrupt, auth, app, props, report, isProcessing>>

\* the students ScannerTab was handed
StudentIds(students) == {students[i].id : i \in 1..Len(students)}

\* handleAttendance, reached from a scan or a typed code that names a
\* student (handleCameraScan and handleBarcodeSubmit return at once while
\* isProcessing): the record is added and, when it was, handleRecordUpdate
\* starts a syncFullData.  addAttendanceRecordToSheet throwing at its
\* JSON.parse ends the handler there, before setIsProcessing(false)
HandleAttendance(s, st) ==
  /\ app.isAuthenticated
  /\ app.activeTab = "scan"
  /\ app.userRole # "PARENT"
  /\ ~isProcessing
  /\ s \in StudentIds(props.students)
  /\ IF "attendance" \in corrupt
     THEN /\ ev' = Thrown("add", s, 0, st)
          /\ isProcessing' = TRUE
          /\ UNCHANGED <<attStored, attCache, net, nextId, joins, isSyncing,
                         syncs, stuSyncs, syncTimer, stuTimer>>
     ELSE LET o == AddOutcome(attCache, s, st, nextId, now) IN
       /\ o.success => nextId <= MaxIds
       /\ attCache' = o.cache
       /\ attStored' = (attStored \/ o.write)
       /\ Cardinality(net \cup Range(o.sent)) <= MaxNet
       /\ net' = net \cup Range(o.sent)
       /\ nextId' = IF o.success THEN nextId + 1 ELSE nextId
       /\ ev' = Event("add", s, 0, st, o.success, o.record, o.sent, attCache, <<>>)
       /\ isProcessing' = FALSE
       /\ IF o.success
          THEN /\ InFlight < MaxInFlight
               /\ SyncFullDataCalled(
                    SyncFullDataOutcome(joins, Running, Timers,
                                        LocalStudents(stuStored, stuCache),
                                        o.cache))
          ELSE UNCHANGED <<joins, isSyncing, syncs, stuSyncs, syncTimer,
                           stuTimer>>
  /\ UNCHANGED <<stuStored, stuCache, remote, now, corrupt, auth, app, props,
                 report>>

\* the loop of handleBulkAttendance over targets: each student is added in
\* turn, the next call reading the cache the one before wrote
RECURSIVE BulkOutcome(_, _, _, _, _)
BulkOutcome(cached, targets, st, id, t) ==
  IF targets = <<>>
  THEN [cache |-> cached, sent |-> {}, nextId |-> id, successCount |-> 0,
        write |-> FALSE]
  ELSE LET o == AddOutcome(cached, Head(targets), st, id, t)
           rest == BulkOutcome(o.cache, Tail(targets), st,
                               IF o.success THEN id + 1 ELSE id, t)
       IN [cache |-> rest.cache, sent |-> Range(o.sent) \cup rest.sent,
           nextId |-> rest.nextId,
           successCount |-> rest.successCount + (IF o.success THEN 1 ELSE 0),
           write |-> o.write \/ rest.write]

\* the selections of the manual list: students ticked one after another
Selections(students) ==
  {t \in SeqsUpTo(StudentIds(students), NumStudents) :
     /\ t # <<>>
     /\ \A i, j \in 1..Len(t) : t[i] = t[j] => i = j}

\* handleBulkAttendance on a selection: returns at once while isProcessing,
\* else adds the targets, calls onRecordUpdate whatever the count and clears
\* isProcessing; the first addAttendanceRecordToSheet throwing at its
\* JSON.parse ends the handler there
HandleBulkAttendance(targets, st) ==
  /\ app.isAuthenticated
  /\ app.activeTab = "scan"
  /\ app.userRole # "PARENT"
  /\ ~isProcessing
  /\ targets \in Selections(props.students)
  /\ IF "attendance" \in corrupt
     THEN /\ ev' = Thrown("bulk", 0, 0, st)
          /\ isProcessing' = TRUE
          /\ UNCHANGED <<attStored, attCache, net, nextId, joins, isSyncing,
                         syncs, stuSyncs, syncTimer, stuTimer>>
     ELSE LET o == BulkOutcome(attCache, targets, st, nextId, now) IN
       /\ o.nextId <= MaxIds + 1
       /\ attCache' = o.cache
       /\ attStored' = (attStored \/ o.write)
       /\ Cardinality(net \cup o.sent) <= MaxNet
       /\ net' = net \cup o.sent
       /\ nextId' = o.nextId
       /\ ev' = Event("bulk", 0, 0, st, o.successCount > 0, <<>>, <<>>,
                      attCache, <<>>)
       /\ isProcessing' = FALSE
       /\ InFlight < MaxInFlight
       /\ SyncFullDataCalled(
            SyncFullDataOutcome(joins, Running, Timers,
                                LocalStudents(stuStored, stuCache), o.cache))
  /\ UNCHANGED <<stuStored, stuCache, remote, now, corrupt, auth, app, props,
                 report>>

\* the row of the daily list a button of Reports was pressed on
DailyRowShown(k) ==
  /\ app.isAuthenticated
  /\ app.activeTab = "reports"
  /\ report.period = "DAILY"
  /\ k \in 1..Len(report.rows)
  /\ report.rows[k].isPresent

\* Reports' handleDelete on the k-th row of the daily list, confirmed:
\* deleteAttendanceRecord, then onRecordUpdate, a prop App does not pass, so
\* that the call of undefined raises and nothing more happens
ReportsHandleDelete(k) ==
  /\ DailyRowShown(k)
  /\ LET id == report.rows[k].recordId IN
     IF "attendance" \in corrupt
     THEN /\ ev' = Thrown("delete", 0, id, "")
          /\ UNCHANGED <<attStored, attCache, net>>
     ELSE LET o == DeleteOutcome(attStored, attCache, id) IN
       /\ attCache' = o.cache
       /\ attStored' = (attStored \/ o.write)
       /\ Cardinality(net \cup Range(o.sent)) <= MaxNet
       /\ net' = net \cup Range(o.sent)
       /\ ev' = [Event("delete", 0, id, "", o.ret, <<>>, o.sent, attCache, <<>>)
                   EXCEPT !.threw = TRUE]
  /\ UNCHANGED <<stuStored, stuCache, remote, syncs, stuSyncs, now, nextId,
                 corrupt, syncTimer, stuTimer, session>>

\* currentStatus === 'PRESENT' ? 'HAID' : 'PRESENT'
Toggled(currentStatus) == IF currentStatus = "PRESENT" THEN "HAID" ELSE "PRESENT"

\* Reports' handleToggleStatus on the k-th row of the daily list:
\* updateAttendanceStatus, then the same call of undefined
ReportsHandleToggleStatus(k) ==
  /\ DailyRowShown(k)
  /\ LET id == report.rows[k].recordId
         st == Toggled(report.rows[k].statusRaw)
     IN
     IF "attendance" \in corrupt
     THEN /\ ev' = Thrown("update", 0, id, st)
          /\ UNCHANGED <<attStored, attCache, net>>
     ELSE LET o == UpdateOutcome(attStored, attCache, id, st) IN
       /\ attCache' = o.cache
       /\ attStored' = (attStored \/ o.write)
       /\ Cardinality(net \cup Range(o.sent)) <= MaxNet
       /\ net' = net \cup Range(o.sent)
       /\ ev' = [Event("update", 0, id, st, o.ret, <<>>, o.sent, attCache, <<>>)
                   EXCEPT !.threw = TRUE]
  /\ UNCHANGED <<stuStored, stuCache, remote, syncs, stuSyncs, now, nextId,
                 corrupt, syncTimer, stuTimer, session>>

\* the students the forms of StudentList can describe
FormStudents == CloudStudents

\* StudentList is shown: the students tab, which only the administrator has
StudentListShown ==
  /\ app.isAuthenticated
  /\ app.activeTab = "students"
  /\ app.userRole = "ADMIN"

\* performSync: setStudents(updatedList), then saveStudents(updatedList),
\* which stores the list and posts it (isSaving is set for the duration of
\* a call that does not suspend before its return)
PerformSync(updatedList) ==
  /\ Len(updatedList) <= MaxRoster
  /\ props' = [props EXCEPT !.students = updatedList]
  /\ stuCache' = updatedList
  /\ stuStored' = TRUE
  /\ corrupt' = corrupt \ {"students"}
  /\ Cardinality(net \cup {SaveRequest(updatedList)}) <= MaxNet
  /\ net' = net \cup {SaveRequest(updatedList)}
  /\ ev' = AppEvent("save")
  /\ UNCHANGED <<attStored, attCache, remote, syncs, stuSyncs, now, nextId,
                 syncTimer, stuTimer, auth, app, report, joins, isSyncing,
                 isProcessing>>

\* handleAddStudent: the student of the form is appended and the list
\* sorted by class, then name
AddedStudents(students, newStudent) ==
  SortBy(Append(students, newStudent), ByClassThenName)

HandleAddStudent(newStudent) ==
  /\ StudentListShown
  /\ PerformSync(AddedStudents(props.students, newStudent))

\* students.map(s => s.id === editForm.id ? editForm : s)
UpdatedStudents(students, editForm) ==
  [i \in 1..Len(students) |->
     IF students[i].id = editForm.id THEN editForm ELSE students[i]]

\* handleUpdateStudent, the form opened on a student of the list; its id
\* field is disabled
HandleUpdateStudent(editForm) ==
  /\ StudentListShown
  /\ editForm.id \in StudentIds(props.students)
  /\ PerformSync(UpdatedStudents(props.students, editForm))

\* StudentList's handleDelete, confirmed, on a student of the list
HandleDeleteStudent(id) ==
  /\ StudentListShown
  /\ id \in StudentIds(props.students)
  /\ PerformSync(SelectSeq(props.students, LAMBDA s : s.id # id))

\* newStudents.forEach: a student whose id the list has replaces that
\* entry, any other is pushed
RECURSIVE MergedStudents(_, _)
MergedStudents(merged, newStudents) ==
  IF newStudents = <<>> THEN merged
  ELSE LET newS == Head(newStudents)
           known == {i \in 1..Len(merged) : merged[i].id = newS.id}
           index == IF known = {} THEN 0
                    ELSE CHOOSE i \in known : \A k \in known : i <= k
       IN MergedStudents(IF index > 0 THEN [merged EXCEPT ![index] = newS]
                         ELSE Append(merged, newS),
                         Tail(newStudents))

\* handleFileUpload, the sheet read giving newStudents, at least one
HandleFileUpload(newStudents) ==
  /\ StudentListShown
  /\ Len(newStudents) > 0
  /\ PerformSync(SortBy(MergedStudents(props.students, newStudents),
                        ByClassThenName))

\* ------------------------------------------------------------------- specs
InitButApp ==
  /\ attStored = FALSE
  /\ attCache = <<>>
  /\ stuStored = FALSE
  /\ stuCache = <<>>
  /\ remote = <<>>
  /\ net = {}
  /\ syncs = <<>>
  /\ stuSyncs = <<>>
  /\ now = 0
  /\ nextId = 1
  /\ called = {}
  /\ deleted = {}
  /\ pinned = [id \in Ids |-> ""]
  /\ corrupt = {}
  /\ syncTimer = <<>>
  /\ stuTimer = <<>>
  /\ auth = <<>>
  /\ app = InitialApp
  /\ report = NoReport
  /\ isProcessing = FALSE

\* the storage service by itself, no page having called syncFullData
InitButProps ==
  /\ InitButApp
  /\ joins = <<>>
  /\ isSyncing = FALSE
  /\ ev = NoEvent

Init == InitButProps /\ props = NoProps

\* the page loaded for the first time: nothing stored, App mounted and the
\* syncFullData of its useEffect awaiting both reads
InitLoaded ==
  /\ InitButApp
  /\ joins = <<[students |-> PendingCall(INITIAL_STUDENTS),
                records |-> PendingCall(<<>>)]>>
  /\ isSyncing = TRUE
  /\ props = NoProps
  /\ ev = AppEvent("start")

Add == \E s \in Students, st \in Statuses : AddAttendance(s, st) /\ UNCHANGED hist
Delete == \E id \in Ids : DeleteAttendance(id) /\ UNCHANGED hist
Update == \E id \in Ids, st \in Statuses : UpdateStatus(id, st) /\ UNCHANGED hist
SyncStart == GetAttendanceStart /\ UNCHANGED hist
\* the endpoint answers a getAttendance with the rows of the sheet
SyncDone ==
  \E i \in 1..MaxInFlight : GetAttendanceEnd(i, "array", remote) /\ UNCHANGED hist
SyncFail ==
  \E i \in 1..MaxInFlight, kind \in FailKinds :
    GetAttendanceEnd(i, kind, <<>>) /\ UNCHANGED hist
Delivered == \E req \in net : Deliver(req) /\ UNCHANGED hist
Lost == \E req \in net : Lose(req) /\ UNCHANGED hist
Clock == Tick /\ UNCHANGED hist

Next ==
  \/ Add
  \/ Delete
  \/ Update
  \/ SyncStart
  \/ SyncDone
  \/ SyncFail
  \/ Delivered
  \/ Lost
  \/ Clock

Spec == Init /\ [][Next]_vars

\* the calls of Spec within one instant of the clock, with the history of
\* deletions and of lost updates written down
HistDelete ==
  \E id \in Ids :
    /\ DeleteAttendance(id)
    /\ deleted' = IF id \in IdsOf(attCache) THEN deleted \cup {id} ELSE deleted
    /\ pinned' = [pinned EXCEPT ![id] = ""]
    /\ UNCHANGED called

HistUpdate ==
  \E id \in Ids, st \in Statuses :
    /\ UpdateStatus(id, st)
    /\ pinned' = [pinned EXCEPT ![id] = ""]
    /\ UNCHANGED <<called, deleted>>

\* the request of an update is lost while the cache shows that update and no
\* getAttendance call is under way
HistLost ==
  \E req \in net :
    /\ Lose(req)
    /\ pinned' =
         IF /\ req.action = "updateAttendance"
            /\ syncs = <<>>
            /\ \E i \in 1..Len(attCache) :
                 attCache[i].id = req.id /\ attCache[i].status = req.status
         THEN [pinned EXCEPT ![req.id] = req.status]
         ELSE pinned
    /\ UNCHANGED <<called, deleted>>

NextHist ==
  \/ Add
  \/ HistDelete
  \/ HistUpdate
  \/ SyncStart
  \/ SyncDone
  \/ SyncFail
  \/ Delivered
  \/ HistLost

SpecHist == Init /\ [][NextHist]_vars

\* only addAttendanceRecordToSheet calls: the client's other calls are left out
AddOnly ==
  \E s \in Students, st \in Statuses :
    /\ AddAttendance(s, st)
    /\ called' = called \cup {<<s, Today(now)>>}
    /\ UNCHANGED <<deleted, pinned>>

NextAddOnly ==
  \/ AddOnly
  \/ Delivered
  \/ Lost
  \/ Clock

SpecAddOnly == Init /\ [][NextAddOnly]_vars

\* the reads against an endpoint this client does not control
FetchStart == GetAttendanceStart /\ UNCHANGED hist
FetchArray ==
  \E i \in 1..MaxInFlight, cloud \in CloudArrays :
    GetAttendanceEnd(i, "array", cloud) /\ UNCHANGED hist
RosterStart == GetStudentsStart /\ UNCHANGED hist
RosterArray ==
  \E i \in 1..MaxInFlight, cloud \in CloudRosters :
    GetStudentsEnd(i, "array", cloud) /\ UNCHANGED hist
RosterFail ==
  \E i \in 1..MaxInFlight, kind \in FailKinds :
    GetStudentsEnd(i, kind, <<>>) /\ UNCHANGED hist

NextFetch ==
  \/ FetchStart
  \/ FetchArray
  \/ SyncFail
  \/ RosterStart
  \/ RosterArray
  \/ RosterFail

SpecFetch == Init /\ [][NextFetch]_vars

\* the four attendance calls from an empty cache, the endpoint answering a
\* read with any array.  An id is a crypto.randomUUID() value: an array can
\* hold the ids this client has drawn so far and the id another client drew
\* (ForeignId), never an id this client is still to draw
ForeignId == 0
ForeignRecords ==
  {[id |-> ForeignId, studentId |-> s, date |-> 0, timestamp |-> 0,
    status |-> "PRESENT"] : s \in Students}
DrawnArrays(next) ==
  SeqsUpTo({r \in CloudRecords \cup ForeignRecords :
              r.id < next /\ r.timestamp = 0}, MaxCloudLen)
IdsFetched ==
  \E i \in 1..MaxInFlight, cloud \in DrawnArrays(nextId) :
    GetAttendanceEnd(i, "array", cloud) /\ UNCHANGED hist

NextIds ==
  \/ Add
  \/ Delete
  \/ Update
  \/ FetchStart
  \/ IdsFetched
  \/ Lost

SpecIds == Init /\ [][NextIds]_vars

\* the rosters StudentList saves here: the built-in roster, whole or with
\* its first student deleted
SavedRosters == {INITIAL_STUDENTS, Tail(INITIAL_STUDENTS)}

StorageKeys == {"students", "attendance", "auth"}

\* something other than this program (the browser's storage inspector,
\* another script of the origin) leaves text that is no JSON under a key
CorruptEntry(key) ==
  /\ key \notin corrupt
  /\ corrupt' = corrupt \cup {key}
  /\ attStored' = IF key = "attendance" THEN TRUE ELSE attStored
  /\ attCache' = IF key = "attendance" THEN <<>> ELSE attCache
  /\ stuStored' = IF key = "students" THEN TRUE ELSE stuStored
  /\ stuCache' = IF key = "students" THEN <<>> ELSE stuCache
  /\ auth' = IF key = "auth" THEN <<>> ELSE auth
  /\ ev' = NoEvent
  /\ UNCHANGED <<remote, net, syncs, stuSyncs, now, nextId, syncTimer,
                 stuTimer, app, props, report, joins, isSyncing, isProcessing>>

Save == \E students \in SavedRosters : SaveStudents(students) /\ UNCHANGED hist
Loaded == AppStart /\ UNCHANGED hist

\* the four write operations, the sync and the fate of the requests
NextWrites ==
  \/ Add
  \/ Delete
  \/ Update
  \/ Save
  \/ SyncStart
  \/ SyncDone
  \/ Delivered
  \/ Lost

SpecWrites == Init /\ [][NextWrites]_vars

\* the handlers of App, ScannerTab and Reports, and the reads of a
\* syncFullData returning
Refresh == SyncFullData /\ UNCHANGED hist
RosterSettled ==
  \E j \in 1..MaxInFlight, kind \in FailKinds :
    StudentsSettle(j, kind, <<>>) /\ UNCHANGED hist
RecordsSettled ==
  \E j \in 1..MaxInFlight : AttendanceSettle(j, "array", remote) /\ UNCHANGED hist
RecordsFailed ==
  \E j \in 1..MaxInFlight, kind \in FailKinds :
    AttendanceSettle(j, kind, <<>>) /\ UNCHANGED hist
Scan ==
  \E s \in Students, st \in Statuses : HandleAttendance(s, st) /\ UNCHANGED hist
RowDelete == \E k \in 1..MaxCloudLen : ReportsHandleDelete(k) /\ UNCHANGED hist
RowToggle ==
  \E k \in 1..MaxCloudLen : ReportsHandleToggleStatus(k) /\ UNCHANGED hist

\* the session over logins, logouts and page loads, with the scans, roster
\* saves, syncs and clock ticks that go on meanwhile
Login ==
  \E l \in Logins :
    HandleLogin(l.username, l.role, l.studentData) /\ UNCHANGED hist
Logout == HandleLogout /\ UNCHANGED hist

NextSession ==
  \/ Login
  \/ Logout
  \/ Loaded
  \/ Add
  \/ Save
  \/ RecordsSettled
  \/ RecordsFailed
  \/ RosterSettled
  \/ Lost
  \/ Clock

SpecSession == Init /\ [][NextSession]_vars

\* the Reports component under every session, over the arrays App may
\* hold; the dates of the range tab and the month of the history tab are
\* chosen on their own tabs
Tab == \E tab \in Tabs : SetActiveTab(tab) /\ UNCHANGED hist
Render ==
  \E period \in Periods, start \in Days, end \in Days, month \in Months :
    /\ period # "WEEKLY" => (start = 0 /\ end = 0)
    /\ period # "MONTHLY" => month = 0
    /\ RenderReports(period, start, end, month)
    /\ UNCHANGED hist

NextReports ==
  \/ Login
  \/ Logout
  \/ Tab
  \/ Render

\* App holds some arrays that getAttendance and getStudents returned
InitReports ==
  /\ InitButProps
  /\ props \in [records : ReportRecords, students : ReportRosters]

SpecReports == InitReports /\ [][NextReports]_vars

\* the range and history tabs of Reports over records of two months,
\* with and without a status, in the session of a teacher or of a guardian;
\* the arrays hold every combination of the students, so one guardian, of
\* the first student of the built-in roster, stands for both
ViewLogins ==
  {l \in Logins :
     \/ l.role = "TEACHER"
     \/ l.role = "PARENT" /\ l.studentData = <<INITIAL_STUDENTS[1]>>}
ViewLogin ==
  \E l \in ViewLogins :
    HandleLogin(l.username, l.role, l.studentData) /\ UNCHANGED hist
View ==
  \E period \in {"WEEKLY", "MONTHLY"}, start \in ViewDates, end \in ViewDates,
     month \in ViewMonths :
    /\ period # "WEEKLY" => (start = 0 /\ end = 0)
    /\ period # "MONTHLY" => month = 0
    /\ RenderReports(period, start, end, month)
    /\ UNCHANGED hist

NextViews ==
  \/ ViewLogin
  \/ Tab
  \/ View

InitViews ==
  /\ InitButProps
  /\ props \in [records : ViewArrays, students : ViewRosters]

SpecViews == InitViews /\ [][NextViews]_vars

\* the daily tab of Reports over the same arrays of records and rosters of
\* two classes, on either day of the clock
ViewDaily == RenderReports("DAILY", 0, 0, 0) /\ UNCHANGED hist

NextDaily ==
  \/ ViewLogin
  \/ Tab
  \/ ViewDaily
  \/ Clock

InitDaily ==
  /\ InitButProps
  /\ props \in [records : ViewArrays, students : DailyRosters]

SpecDaily == InitDaily /\ [][NextDaily]_vars

\* App over a session: page loads, logins, the refresh button, the scans
\* of ScannerTab, the daily list of Reports with its buttons, and the
\* endpoint answering the reads with the rows of the sheet, which no write
\* request reaches here, or not at all
NextApp ==
  \/ Loaded
  \/ ViewLogin
  \/ Logout
  \/ Tab
  \/ Refresh
  \/ RosterSettled
  \/ RecordsSettled
  \/ RecordsFailed
  \/ Scan
  \/ ViewDaily
  \/ RowDelete
  \/ RowToggle
  \/ Lost

SpecApp == InitLoaded /\ [][NextApp]_vars

\* the administrator on the students tab, with the page loads whose
\* getStudents receives a roster of distinct ids or fails
AdminLogin == HandleLogin("ADMINISTRATOR", "ADMIN", <<>>) /\ UNCHANGED hist
RosterArrived ==
  \E j \in 1..MaxInFlight, cloud \in ViewRosters :
    StudentsSettle(j, "array", cloud) /\ UNCHANGED hist
AddStudent ==
  \E newStudent \in FormStudents : HandleAddStudent(newStudent) /\ UNCHANGED hist
UpdateStudent ==
  \E editForm \in FormStudents : HandleUpdateStudent(editForm) /\ UNCHANGED hist
DeleteStudent == \E id \in Students : HandleDeleteStudent(id) /\ UNCHANGED hist
FileUpload ==
  \E newStudents \in CloudRosters : HandleFileUpload(newStudents) /\ UNCHANGED hist

NextRoster ==
  \/ Loaded
  \/ AdminLogin
  \/ Tab
  \/ RosterSettled
  \/ RosterArrived
  \/ RecordsFailed
  \/ AddStudent
  \/ UpdateStudent
  \/ DeleteStudent
  \/ FileUpload
  \/ Lost

SpecRoster == InitLoaded /\ [][NextRoster]_vars

\* ScannerTab under a teacher, the attendance entry of the storage liable
\* to be left malformed by something else
TeacherLogin ==
  HandleLogin("Dra. Sri Hayati", "TEACHER", <<>>) /\ UNCHANGED hist
AttendanceCorrupted == CorruptEntry("attendance") /\ UNCHANGED hist
BulkScan ==
  \E targets \in SeqsUpTo(Students, NumStudents), st \in Statuses :
    HandleBulkAttendance(targets, st) /\ UNCHANGED hist

NextScanner ==
  \/ TeacherLogin
  \/ Logout
  \/ Tab
  \/ AttendanceCorrupted
  \/ Scan
  \/ BulkScan
  \/ RosterSettled
  \/ RecordsSettled
  \/ RecordsFailed
  \/ Lost
  \/ Clock

SpecScanner == InitLoaded /\ [][NextScanner]_vars

\* the reading calls, the scan and the page load over a cache that can hold
\* malformed entries
Corrupted == \E key \in StorageKeys : CorruptEntry(key) /\ UNCHANGED hist

NextCorrupt ==
  \/ Corrupted
  \/ Add
  \/ SyncStart
  \/ SyncDone
  \/ RosterStart
  \/ RosterFail
  \/ Loaded
  \/ Delivered
  \/ Lost

SpecCorrupt == Init /\ [][NextCorrupt]_vars

\* the reads with the two awaits of each told apart: the fetch, which the
\* timer of fetchWithTimeout bounds, and response.json()
Answered == \E i \in 1..MaxInFlight : ResponseStarts(i) /\ UNCHANGED hist
TimedOut == \E i \in 1..MaxInFlight : TimerFires(i) /\ UNCHANGED hist
BodyRead ==
  \E i \in 1..MaxInFlight, cloud \in CloudArrays :
    BodyArrives(i, "array", cloud) /\ UNCHANGED hist
BodyFailed ==
  \E i \in 1..MaxInFlight, kind \in FailKinds :
    BodyArrives(i, kind, <<>>) /\ UNCHANGED hist
RosterAnswered == \E i \in 1..MaxInFlight : RosterResponseStarts(i) /\ UNCHANGED hist
RosterTimedOut == \E i \in 1..MaxInFlight : RosterTimerFires(i) /\ UNCHANGED hist
RosterBodyRead ==
  \E i \in 1..MaxInFlight, cloud \in CloudRosters :
    RosterBodyArrives(i, "array", cloud) /\ UNCHANGED hist

NextTimeout ==
  \/ FetchStart
  \/ Answered
  \/ TimedOut
  \/ BodyRead
  \/ BodyFailed
  \/ RosterStart
  \/ RosterAnswered
  \/ RosterTimedOut
  \/ RosterBodyRead

\* the event loop runs the callback of a timer that stays pending; nothing
\* makes the endpoint answer
SpecTimeout ==
  /\ Init
  /\ [][NextTimeout]_vars
  /\ WF_vars(TimedOut)
  /\ WF_vars(RosterTimedOut)

\* ------------------------------------------------------------------ claims
\* no two records of recs are of the same student on the same day
OnePerStudentDay(recs) ==
  \A i, j \in 1..Len(recs) :
    (recs[i].studentId = recs[j].studentId /\ recs[i].date = recs[j].date)
      => i = j

DistinctIds(recs) ==
  \A i, j \in 1..Len(recs) : recs[i].id = recs[j].id => i = j

\* C1: when the client makes only addAttendanceRecordToSheet calls, a call
\* succeeds exactly when it is the first one for that student on that day,
\* and the cache never holds two records of one student for one day.
C1_FirstAddWinsLaterRejected ==
  [][ev'.op = "add" =>
       /\ ev'.ok = (<<ev'.student, Today(now)>> \notin called)
       /\ OnePerStudentDay(attCache')]_vars

C1_Witness ==
  /\ ev.op = "add"
  /\ ~ev.ok
  /\ <<ev.student, Today(now)>> \in called
  /\ \E i \in 1..Len(attCache) :
       attCache[i].studentId = ev.student /\ attCache[i].date = Today(now)

\* C5: an addAttendanceRecordToSheet call for a student the cache already
\* has a record of today returns success=false without a record, leaves the
\* cache as it was and sends no request.
C5_DuplicateAddChangesNothing ==
  [][(ev'.op = "add" /\ HasToday(attCache, ev'.student, Today(now))) =>
       /\ ~ev'.ok
       /\ ev'.rec = <<>>
       /\ ev'.sent = <<>>
       /\ attCache' = attCache
       /\ attStored' = attStored
       /\ net' = net]_vars

C5_Witness ==
  /\ ev.op = "add"
  /\ HasToday(ev.snap, ev.student, Today(now))
  /\ Len(attCache) >= 1

\* C9: deleteAttendanceRecord with an id no cached record has leaves the
\* attendance cache as it was: same records, same order, same fields.
C9_DeleteAbsentIdKeepsCache ==
  [][(ev'.op = "delete" /\ ev'.id \notin IdsOf(attCache)) =>
       (attCache' = attCache /\ attStored' = attStored)]_vars

C9_Witness ==
  /\ ev.op = "delete"
  /\ ev.id \notin IdsOf(ev.snap)
  /\ Len(ev.snap) >= 1
  /\ attStored

\* C10: for an id absent from the cache, updateAttendanceStatus and
\* deleteAttendanceRecord each send no request, leave the cache alone and
\* return a result that says nothing was done.
C10_AbsentIdIsNoOp ==
  [][(ev'.op \in {"delete", "update"} /\ ev'.id \notin IdsOf(attCache)) =>
       /\ ev'.sent = <<>>
       /\ ~ev'.ok
       /\ net' = net
       /\ attCache' = attCache]_vars

\* C8: with this client the only writer of the sheet, the cache never holds
\* two records with the same (studentId, date).
C8_OneRecordPerStudentDay == OnePerStudentDay(attCache)

\* a getAttendance call has just returned after receiving an array
MergedJustNow == ev.op = "getAttendance" /\ ev.kind = "array"

\* C2 as stated: the list getAttendance returns and stores on receiving the
\* array R with local records L has every record of R, every record of L
\* whose id is not in R, nothing else, and no id twice.
C2_MergeHasEveryRemoteRecord ==
  MergedJustNow =>
    LET R == ev.resp
        L == ev.snap
        out == ev.ret
    IN /\ attCache = out
       /\ \A r \in Range(R) : r \in Range(out)
       /\ \A l \in Range(L) : l.id \notin IdsOf(R) => l \in Range(out)
       /\ \A o \in Range(out) :
            o \in Range(R) \/ (o \in Range(L) /\ o.id \notin IdsOf(R))
       /\ DistinctIds(out)

\* C2 as amended: for each id of R the list has the last record of R with
\* that id (so every record of R when the ids of R are distinct), every
\* record of L whose id is not in R, nothing else, and no id twice; for an
\* id in both R and L the remote version is the one kept.
C2_MergeHasLastRemotePerId ==
  MergedJustNow =>
    LET R == ev.resp
        L == ev.snap
        out == ev.ret
    IN /\ attCache = out
       /\ \A r \in Range(R) : LastWithId(R, r.id) \in Range(out)
       /\ DistinctIds(R) => \A r \in Range(R) : r \in Range(out)
       /\ \A l \in Range(L) : l.id \notin IdsOf(R) => l \in Range(out)
       /\ \A o \in Range(out) :
            IF o.id \in IdsOf(R) THEN o = LastWithId(R, o.id)
            ELSE o \in Range(L)
       /\ DistinctIds(out)

C2_Witness ==
  /\ MergedJustNow
  /\ \E l \in Range(ev.snap) : l.id \notin IdsOf(ev.resp)
  /\ \E l \in Range(ev.snap), r \in Range(ev.resp) : l.id = r.id /\ l # r
  /\ Len(ev.ret) >= 2

\* C6: when the fetch of getAttendance or getStudents throws, times out or
\* yields no array, the call returns the local snapshot it read at its start
\* (the stored list, or else the built-in roster or the empty list) and
\* stores nothing.
C6_FailedFetchReturnsLocalSnapshot ==
  [][/\ (ev'.op = "getAttendance" /\ ev'.kind \in FailKinds) =>
          /\ \E i \in 1..Len(syncs) :
               ev'.ret = syncs[i] /\ syncs' = RemoveAt(syncs, i)
          /\ UNCHANGED <<attStored, attCache, stuStored, stuCache>>
     /\ (ev'.op = "getStudents" /\ ev'.kind \in FailKinds) =>
          /\ \E i \in 1..Len(stuSyncs) :
               ev'.ret = stuSyncs[i] /\ stuSyncs' = RemoveAt(stuSyncs, i)
          /\ UNCHANGED <<attStored, attCache, stuStored, stuCache>>
     /\ Len(syncs') > Len(syncs) =>
          syncs'[Len(syncs')] = (IF attStored THEN attCache ELSE <<>>)
     /\ Len(stuSyncs') > Len(stuSyncs) =>
          stuSyncs'[Len(stuSyncs')] =
            (IF stuStored THEN stuCache ELSE INITIAL_STUDENTS)]_vars

C6_Witness ==
  /\ ev.op = "getStudents"
  /\ ev.kind = "error"
  /\ ev.ret = INITIAL_STUDENTS
  /\ ~stuStored
  /\ attStored
  /\ Len(attCache) >= 1

\* C3: a record deleteAttendanceRecord removed from the cache is in the
\* cache and in what getAttendance returns (the records the reports are
\* computed from) at no later time.
C3_DeletedRecordStaysDeleted ==
  \A id \in deleted :
    /\ id \notin IdsOf(attCache)
    /\ ev.op = "getAttendance" => id \notin IdsOf(ev.ret)

\* C4: a record a successful addAttendanceRecordToSheet created is in the
\* cache for as long as deleteAttendanceRecord has not removed it.
C4_AddedRecordStaysCached ==
  \A id \in 1..(nextId - 1) : id \notin deleted => id \in IdsOf(attCache)

\* C7: once the request of an updateAttendanceStatus(id, s) that changed the
\* cached record is lost, the cached record keeps status s until the next
\* update or deletion of it.
C7_LostUpdateSurvivesSync ==
  \A i \in 1..Len(attCache) :
    pinned[attCache[i].id] # "" => attCache[i].status = pinned[attCache[i].id]

\* C11: when the students or the attendance entry of the cache holds text
\* that is no valid JSON, getStudents, getAttendance and
\* addAttendanceRecordToSheet take the entry for absent and return normally:
\* none of these calls ends by raising.
C11_MalformedEntryTreatedAsAbsent ==
  ev.op \in {"getStudents", "getAttendance", "add"} => ~ev.threw

\* C12: every call to the endpoint is bounded by the timeout, so every
\* getAttendance and getStudents call that is awaiting the endpoint returns
\* in the end, whether or not the endpoint ever answers.
C12_EveryReadReturns ==
  /\ (syncs # <<>>) ~> (syncs = <<>>)
  /\ (stuSyncs # <<>>) ~> (stuSyncs = <<>>)

WriteOps == {"add", "delete", "update", "save"}

\* C13: in every write operation the cache is written before the request is
\* issued: in the state in which a request has been sent, the cache already
\* has the added record, lacks the deleted id, shows the new status, or holds
\* the saved roster.
C13_CacheWrittenBeforeRequest ==
  [][\A req \in Range(ev'.sent) :
       /\ req \in net'
       /\ req.action = "addAttendance" =>
            attStored' /\ req.rec[1] \in Range(attCache')
       /\ req.action = "deleteAttendance" =>
            attStored' /\ req.id \notin IdsOf(attCache')
       /\ req.action = "updateAttendance" =>
            /\ attStored'
            /\ \E i \in 1..Len(attCache') :
                 attCache'[i].id = req.id /\ attCache'[i].status = req.status
       /\ req.action = "saveStudents" =>
            stuStored' /\ stuCache' = req.rec]_vars

C13_Witness ==
  /\ ev.op = "update"
  /\ ev.sent # <<>>
  /\ ev.sent[1] \in net
  /\ \E i \in 1..Len(ev.snap) :
       ev.snap[i].id = ev.id /\ ev.snap[i].status # ev.status
  /\ \E i \in 1..Len(attCache) :
       attCache[i].id = ev.id /\ attCache[i].status = ev.status

RosterJustFetched == ev.op = "getStudents" /\ ev.kind = "array"

C16_LocalOnlyStudentsKept ==
  (RosterJustFetched /\ ev.resp # <<>>) =>
    \A l \in Range(ev.snap) :
      l.id \notin IdsOf(ev.resp) => (l \in Range(ev.ret) /\ l \in Range(stuCache))

SortedDesc(recs) ==
  \A i \in 1..(Len(recs) - 1) : recs[i].timestamp >= recs[i + 1].timestamp

\* C17: after getAttendance has reconciled an array, the list it returns and
\* the attendance cache are in order of non-increasing timestamp.
C17_MergedListNewestFirst ==
  MergedJustNow => (SortedDesc(ev.ret) /\ attStored /\ SortedDesc(attCache))

C17_Witness ==
  /\ MergedJustNow
  /\ ~SortedDesc(ev.resp \o ev.snap)
  /\ Len(attCache) >= 2
  /\ attCache[1].timestamp > attCache[Len(attCache)].timestamp

\* C18: the stored session changes only at a login, which writes the
\* username and role logged in with, and at a logout, which removes it; no
\* sync, attendance or roster write, page load or clock tick alters it, and
\* a page load over a stored session makes App authenticated with the
\* stored username and role.
C18_SessionKeptUntilLogout ==
  [][/\ auth' # auth => ev'.op \in {"login", "logout"}
     /\ ev'.op = "login" =>
          /\ auth' # <<>>
          /\ auth'[1].username = app'.currentUser
          /\ auth'[1].role = app'.userRole
          /\ app'.isAuthenticated
     /\ ev'.op = "logout" => (auth' = <<>> /\ ~app'.isAuthenticated)
     /\ (ev'.op = "start" /\ auth # <<>>) =>
          /\ auth' = auth
          /\ app'.isAuthenticated
          /\ app'.currentUser = auth[1].username
          /\ app'.userRole = auth[1].role]_vars

C18_Witness ==
  /\ ev.op = "start"
  /\ auth # <<>>
  /\ app.isAuthenticated
  /\ app.userRole = "PARENT"
  /\ app.parentStudentData = <<auth[1].studentData>>
  /\ attCache # <<>>
  /\ stuStored
  /\ now > 0

\* the records of recs that are of the student
RecordsOf(recs, studentId) == SelectSeq(recs, LAMBDA r : r.studentId = studentId)

\* C19: in a guardian session bound to student S every row of every report
\* tab is a row of S, and the rows are those the tab would show if the
\* records of all other students were not there.
C19_GuardianSeesOwnChildOnly ==
  (report.period # "" /\ report.viewOnlyStudent # <<>>) =>
    LET S == report.viewOnlyStudent[1] IN
    /\ \A k \in 1..Len(report.rows) : report.rows[k].id = S.id
    /\ report.rows =
         ReportRows(report.period, RecordsOf(report.records, S.id),
                    report.students, report.viewOnlyStudent, report.today,
                    report.startDate, report.endDate, report.historyMonth)

\* C20: the leaderboard has exactly one entry for each roster student with
\* at least one record, its total the number of that student's records;
\* students without records and records of students outside the roster give
\* no entry; the entries are in order of total descending, then name
\* ascending.
C20_LeaderboardOnePerStudentWithRecords ==
  report.period = "SEMESTER" =>
    LET rows == report.rows
        Total(id) == Len(RecordsOf(report.records, id))
    IN /\ \A id \in IdsOf(report.students) :
            Total(id) > 0 =>
              /\ Cardinality({k \in 1..Len(rows) : rows[k].id = id}) = 1
              /\ \A k \in 1..Len(rows) : rows[k].id = id => rows[k].total = Total(id)
       /\ \A k \in 1..Len(rows) :
            /\ rows[k].id \in IdsOf(report.students)
            /\ Total(rows[k].id) > 0
            /\ rows[k].total = rows[k].present + rows[k].haid
       /\ \A k \in 1..(Len(rows) - 1) :
            \/ rows[k].total > rows[k + 1].total
            \/ /\ rows[k].total = rows[k + 1].total
               /\ LocaleCompare(rows[k].name, rows[k + 1].name) <= 0

C20_Witness ==
  /\ report.period = "SEMESTER"
  /\ Len(report.rows) = 2
  /\ report.rows[1].total > report.rows[2].total
  /\ LocaleCompare(report.rows[1].name, report.rows[2].name) > 0
  /\ report.rows[1].haid > 0

\* the students a rendered view is about: the guardian's child, else the roster
InScope(r) == TargetStudents(r.students, r.viewOnlyStudent, "ALL")

\* the rows of a rendered view carry the in-scope students, one row each
OneRowPerStudent(r) ==
  /\ Len(r.rows) = Len(InScope(r))
  /\ \A i \in 1..Len(InScope(r)) :
       Cardinality({k \in 1..Len(r.rows) :
                      /\ r.rows[k].id = InScope(r)[i].id
                      /\ r.rows[k].name = InScope(r)[i].name
                      /\ r.rows[k].className = InScope(r)[i].className})
         = Cardinality({j \in 1..Len(InScope(r)) : InScope(r)[j] = InScope(r)[i]})

\* how many records of recs are of the student, dated in the month, with the status
NumberInMonth(recs, studentId, month, status) ==
  Cardinality({i \in 1..Len(recs) :
                 /\ recs[i].studentId = studentId
                 /\ MonthOf(recs[i].date) = month
                 /\ recs[i].status = status})

HasRecordOn(recs, studentId, day, haid) ==
  \E i \in 1..Len(recs) :
    /\ recs[i].studentId = studentId
    /\ recs[i].date = day
    /\ (recs[i].status = "HAID") = haid

\* C22: in the range matrix of an interval [start, end], start <= end, every
\* in-scope student has a row with one cell per calendar day of the interval
\* in date order; a cell is excused if the student has a HAID record dated
\* that day, else present if the student has a non-HAID record dated that
\* day, else absent; presentCount and haidCount are the numbers of present
\* and of excused cells of the row.
C22_RangeMatrixCellPerDay ==
  report.period = "WEEKLY" =>
    /\ OneRowPerStudent(report)
    /\ \A k \in 1..Len(report.rows) :
         LET row == report.rows[k]
             cells == row.attendanceMap
             Excused(j) == cells[j].isPresent /\ cells[j].isHaid
             Present(j) == cells[j].isPresent /\ ~cells[j].isHaid
         IN /\ Len(cells) = report.endDate - report.startDate + 1
            /\ \A j \in 1..Len(cells) :
                 /\ cells[j].date = report.startDate + j - 1
                 /\ Excused(j) =
                      HasRecordOn(report.records, row.id, cells[j].date, TRUE)
                 /\ Present(j) =
                      (/\ ~HasRecordOn(report.records, row.id, cells[j].date, TRUE)
                       /\ HasRecordOn(report.records, row.id, cells[j].date, FALSE))
            /\ row.presentCount =
                 Cardinality({j \in 1..Len(cells) : Present(j)})
            /\ row.haidCount = Cardinality({j \in 1..Len(cells) : Excused(j)})

\* the positions in recs of the student's records dated the day
RecordsOn(recs, studentId, day) ==
  {i \in 1..Len(recs) : recs[i].studentId = studentId /\ recs[i].date = day}

HeaderCount(rows, status) ==
  Cardinality({k \in 1..Len(rows) : rows[k].statusRaw = status})

\* C27: in the daily view a row's statusRaw is ABSENT exactly when the
\* student has no record dated today, that is when isPresent is false; so
\* the Hadir, Haid and Alfa counts of the header add up to the number of
\* rows and Alfa counts the students without a record today.
C27_AbsentIffNoRecordToday ==
  report.period = "DAILY" =>
    /\ \A k \in 1..Len(report.rows) :
         /\ (report.rows[k].statusRaw = "ABSENT") = ~report.rows[k].isPresent
         /\ report.rows[k].isPresent =
              (RecordsOn(report.records, report.rows[k].id, report.today) # {})
    /\ HeaderCount(report.rows, "PRESENT") + HeaderCount(report.rows, "HAID")
         + HeaderCount(report.rows, "ABSENT") = Len(report.rows)
    /\ HeaderCount(report.rows, "ABSENT") =
         Cardinality({k \in 1..Len(report.rows) :
            RecordsOn(report.records, report.rows[k].id, report.today) = {}})

\* the first and the last day of a month
FirstDayOf(month) == month * DaysPerMonth
LastDayOf(month) == (month + 1) * DaysPerMonth - 1

\* C28: for every student of a history view and its month, presentCount and
\* haidCount of the history row equal presentCount and haidCount of the
\* student's row in the range matrix of the interval from the first to the
\* last day of that month, computed from the same records and roster.
C28_HistoryAgreesWithRangeOfMonth ==
  report.period = "MONTHLY" =>
    LET matrix ==
          weeklyMatrixData(report.records, report.students,
                           report.viewOnlyStudent,
                           FirstDayOf(report.historyMonth),
                           LastDayOf(report.historyMonth), "ALL")
    IN \A k \in 1..Len(report.rows) :
         \A j \in 1..Len(matrix) :
           matrix[j].id = report.rows[k].id =>
             /\ matrix[j].presentCount = report.rows[k].presentCount
             /\ matrix[j].haidCount = report.rows[k].haidCount

\* C24: whenever no syncFullData call is in flight, the records App holds
\* (the records prop of every view) are the attendance cache.
C24_AppRecordsAreTheCache ==
  (joins = <<>> /\ syncs = <<>>) => props.records = attCache

\* C25: from an empty cache, whatever add, update, delete and getAttendance
\* calls are made and whatever arrays the reads receive, no two records of
\* the attendance cache have the same id.
C25_CacheIdsDistinct == DistinctIds(attCache)

\* a read that received an array repeating an id has stored its merge, and
\* the cache holds several records
C25_Witness ==
  /\ ev.op = "getAttendance"
  /\ ev.kind = "array"
  /\ ev.ok
  /\ ~DistinctIds(ev.resp)
  /\ ev.snap # <<>>
  /\ Len(attCache) >= 2

\* C26: after any roster operations (add, edit, delete, import, getStudents
\* sync) from a roster of distinct ids, no two students of the roster App
\* holds, nor of the students cache, share an id.
C26_RosterIdsDistinct ==
  DistinctIds(props.students) /\ DistinctIds(stuCache)

\* the step is a read of a syncFullData returning, not a user's action
ReadReturns == ev'.op \in {"getStudents", "getAttendance"}

\* C29: in a guardian (PARENT) session no user action changes the
\* attendance cache or the students cache or sends a write request.
C29_GuardianWritesNothing ==
  [][(app.isAuthenticated /\ app.userRole = "PARENT" /\ ~ReadReturns)
       => (attCache' = attCache /\ stuCache' = stuCache /\ net' \subseteq net)]_vars

\* C30: once handleAttendance or handleBulkAttendance has run to its end,
\* returning or raising, isProcessing is false again (no later step of
\* ScannerTab clears the flag: the handler's end is where it must be
\* false).
C30_ScannerUnblockedAfterHandler ==
  (ev.op \in {"add", "bulk"}) => ~isProcessing

=============================================================================
